---- MODULE Spec2Model ----
(***************************************************************************)
(* A model of FastRunContainer (wikidataintegrator/wdi_fastrun.py): the    *)
(* entity statement cache, the reverse value index, the property datatype  *)
(* map, the language cache and the write_required decision procedure.      *)
(*                                                                         *)
(* Python strings are sequences of atoms ("/" is an atom of its own), so   *)
(* that split('/')[-1], startswith("+"), '+' + s and 'Q{}'.format(n) are   *)
(* computed, not assumed.  Python values are tagged pairs <<tag, payload>>.*)
(***************************************************************************)
EXTENDS Integers, Sequences, FiniteSets, TLC

VARIABLES
    prop_data,      \* self.prop_data: <<qid, prop_nr, sid>> -> [v, qual, ref]
    prop_order,     \* insertion order of the property keys of self.prop_data[qid]
    rev_lookup,     \* self.rev_lookup: value -> set of qids
    prop_dt_map,    \* self.prop_dt_map: prop_nr -> datatype tag
    loaded_langs,   \* self.loaded_langs: lang -> (kind -> query result)
    current_qid,    \* self.current_qid
    use_refs,       \* self.use_refs, fixed at construction
    remote,         \* version of the remote store the queries are answered from
    populated,      \* history: properties queried since construction / the last clear
    dt_lookups,     \* history: datatype lookups per property since the last clear
    lang_queries,   \* history: language queries per <<lang, kind>> since construction
    last_cleared,   \* history: "no" once a property was resolved or populated after the last
                    \* clear(); else whether that clear() dropped anything
    ret             \* the operation the caller is returning from, and its outcome

vars == <<prop_data, prop_order, rev_lookup, prop_dt_map, loaded_langs, current_qid,
          use_refs, remote, populated, dt_lookups, lang_queries, last_cleared, ret>>

---------------------------------------------------------------------------
(* Bounds *)
MaxData == 2        \* longest desired statement list passed to write_required
MaxLangData == 1    \* longest string list passed to check_language_data
MaxCount == 2       \* the history counters stop counting here

---------------------------------------------------------------------------
(* Python values *)
Str(s) == <<"str", s>>
IntV(n) == <<"int", n>>
TupleV(es) == <<"tuple", es>>
DictV(s) == <<"dict", s>>
EmptyStr == Str(<<>>)

\* bool(v)
Truthy(v) ==
    CASE v[1] = "str" -> Len(v[2]) > 0
      [] v[1] = "int" -> v[2] # 0
      [] v[1] = "tuple" -> Len(v[2]) > 0
      [] OTHER -> TRUE

DigitAtom == <<"0", "1", "2", "3", "4", "5", "6", "7", "8", "9">>

\* str(n) for a one-digit n
Digits(n) == <<DigitAtom[n + 1]>>

\* int(s) for a one-digit s
ParseInt(s) == CHOOSE n \in 0..9 : Digits(n) = s

\* 'Q{}'.format(v)
FormatQ(v) == IF v[1] = "int" THEN Str(<<"Q">> \o Digits(v[2])) ELSE Str(<<"Q">> \o v[2])

\* v[0]
Subscript0(v) == IF v[1] = "tuple" THEN v[2][1] ELSE Str(<<v[2][1]>>)

RECURSIVE LastSlash(_, _)
LastSlash(s, i) == IF i = 0 THEN 0 ELSE IF s[i] = "/" THEN i ELSE LastSlash(s, i - 1)

\* s.split('/')[-1]
LastSeg(s) == SubSeq(s, LastSlash(s, Len(s)) + 1, Len(s))

\* 'www.wikidata.org/entity/' in s
HasEntityPrefix(s) ==
    \E i \in 1..Len(s) :
        /\ i + 3 <= Len(s)
        /\ s[i] = "www.wikidata.org" /\ s[i + 1] = "/"
        /\ s[i + 2] = "entity" /\ s[i + 3] = "/"

\* s.startswith("+")
StartsWithPlus(s) == Len(s) > 0 /\ s[1] = "+"

---------------------------------------------------------------------------
(* Identifiers *)
Q1 == <<"Q", "1">>
Q2 == <<"Q", "2">>
P1 == <<"P", "1">>
P2 == <<"P", "2">>
P3 == <<"P", "3">>
P4 == <<"P", "4">>
Props == {P1, P2, P3, P4}
NoQid == <<>>

\* the datatype the remote store declares for each property
RemoteDatatype(p) ==
    CASE p = P1 -> "string"
      [] p = P2 -> "wikibase-item"
      [] p = P3 -> "time"
      [] OTHER -> "globe-coordinate"

---------------------------------------------------------------------------
(* The remote store and the bindings a population query returns *)
Base == <<"http:", "/", "/", "www.wikidata.org", "/">>
EntityUri(id) == Base \o <<"entity", "/">> \o id
StatementUri(sid) == Base \o <<"entity", "/", "statement", "/">> \o sid
QualifierUri(p) == Base \o <<"prop", "/", "qualifier", "/">> \o p
ReferenceUri(r) == Base \o <<"reference", "/">> \o r
RefPropUri(p) == Base \o <<"prop", "/", "reference", "/">> \o p

Uri(s) == [type |-> "uri", value |-> s, datatype |-> ""]
Literal(s) == [type |-> "literal", value |-> s, datatype |-> ""]
DateTime(s) == [type |-> "literal", value |-> s, datatype |-> "dateTime"]
Absent == [type |-> "absent", value |-> <<>>, datatype |-> ""]

QualQ5 == [pq |-> Uri(QualifierUri(P2)), qval |-> Uri(EntityUri(<<"Q", "5">>))]
RefT2 == [ref |-> Uri(ReferenceUri(<<"r1">>)), pr |-> Uri(RefPropUri(P3)),
          rval |-> DateTime(<<"t2">>)]

RemoteStmt(q, p, sid, v, quals, refs) ==
    [item |-> Uri(EntityUri(q)), prop |-> p, sid |-> Uri(StatementUri(sid)), v |-> v,
     quals |-> quals, refs |-> refs]

\* The remote store.  Q1 and Q2 share the value "a" of P1, Q2 holds two equal
\* statements of P1, and only s1 carries a reference.  Version 1 is version 0
\* after the store diverged: statement s5 changed its value.
RemoteStore(ver) ==
    { RemoteStmt(Q1, P1, <<"s1">>, Literal(<<"a">>), {QualQ5}, {RefT2}),
      RemoteStmt(Q1, P2, <<"s2">>, Uri(EntityUri(<<"Q", "5">>)), {}, {}),
      RemoteStmt(Q2, P1, <<"s3">>, Literal(<<"a">>), {QualQ5}, {}),
      RemoteStmt(Q2, P1, <<"s6">>, Literal(<<"a">>), {QualQ5}, {}),
      RemoteStmt(Q2, P2, <<"s7">>, Uri(EntityUri(<<"Q", "6">>)), {}, {}),
      RemoteStmt(Q2, P3, <<"s4">>, DateTime(<<"t1">>), {}, {}),
      RemoteStmt(Q2, P4, <<"s5">>,
                 Literal(IF ver = 0 THEN <<"Point(1 2)">> ELSE <<"Point(3 4)">>), {}, {}) }

\* r = self.engine.execute_sparql_query(...)['results']['bindings']
QueryBindings(prop_nr, refs_wanted, ver) ==
    UNION { { [item |-> st.item, sid |-> st.sid, v |-> st.v,
               pq |-> q.pq, qval |-> q.qval, ref |-> r.ref, pr |-> r.pr, rval |-> r.rval] :
              q \in (IF st.quals = {} THEN {[pq |-> Absent, qval |-> Absent]} ELSE st.quals),
              r \in (IF refs_wanted /\ st.refs # {} THEN st.refs
                     ELSE {[ref |-> Absent, pr |-> Absent, rval |-> Absent]}) } :
            st \in {s \in RemoteStore(ver) : s.prop = prop_nr} }

Present(b) == b.type # "absent"

\* i[value] = i[value]['value'].split('/')[-1]
FormatId(b) == IF Present(b) THEN LastSeg(b.value) ELSE <<>>

\* the principal value of a binding
FormatV(b) ==
    CASE b.type = "literal" -> Str(b.value)
      [] b.type = "uri" -> IF HasEntityPrefix(b.value) THEN Str(LastSeg(b.value)) ELSE Str(b.value)
      [] OTHER -> DictV(b.value)

\* the value of a reference binding
FormatRval(b) ==
    LET val == IF b.datatype = "dateTime" /\ ~StartsWithPlus(b.value)
               THEN <<"+">> \o b.value ELSE b.value
    IN CASE b.type = "literal" -> Str(val)
         [] b.type = "uri" -> IF HasEntityPrefix(val) THEN Str(LastSeg(val)) ELSE Str(val)
         [] OTHER -> DictV(val)

\* the "format" loop of _query_data, for one binding
FormatRow(i) ==
    [item |-> FormatId(i.item), sid |-> FormatId(i.sid), v |-> FormatV(i.v),
     has_qual |-> Present(i.pq) /\ Present(i.qval),
     pq |-> FormatId(i.pq), qval |-> Str(FormatId(i.qval)),
     has_ref |-> Present(i.ref),
     ref |-> FormatId(i.ref), pr |-> FormatId(i.pr),
     rval |-> IF Present(i.rval) THEN FormatRval(i.rval) ELSE EmptyStr]

---------------------------------------------------------------------------
(* Generic helpers *)
RECURSIVE SetToSeq(_)
SetToSeq(S) == IF S = {} THEN <<>> ELSE LET x == CHOOSE y \in S : TRUE IN <<x>> \o SetToSeq(S \ {x})

Range(s) == {s[i] : i \in 1..Len(s)}

SelectIdx(s, Test(_)) == {i \in 1..Len(s) : Test(s[i])}

Remove(s, i) == SubSeq(s, 1, i - 1) \o SubSeq(s, i + 1, Len(s))

Min(S) == CHOOSE x \in S : \A y \in S : x <= y

EmptyMap == [x \in {} |-> {}]

---------------------------------------------------------------------------
(* _query_data: population of the entity statement cache and the reverse index *)
NoEntry == [v |-> EmptyStr, qual |-> {}, ref |-> {}]

\* the "update frc" loop: the cache entries after all rows have been merged
UpdatePropData(pd, prop_nr, rows) ==
    LET keys == {<<r.item, prop_nr, r.sid>> : r \in rows}
    IN [k \in (DOMAIN pd) \cup keys |->
          IF k \in keys
          THEN LET rs == {r \in rows : r.item = k[1] /\ r.sid = k[3]}
                   old == IF k \in DOMAIN pd THEN pd[k] ELSE NoEntry
               IN [v |-> (CHOOSE r \in rs : TRUE).v,
                   qual |-> old.qual \cup {<<r.pq, r.qval>> : r \in {x \in rs : x.has_qual}},
                   ref |-> old.ref \cup {<<r.ref, r.pr, r.rval>> : r \in {x \in rs : x.has_ref}}]
          ELSE pd[k]]

\* the order in which property keys were inserted into self.prop_data[qid]
UpdatePropOrder(po, prop_nr, rows) ==
    LET items == {r.item : r \in rows}
    IN [q \in (DOMAIN po) \cup items |->
          LET old == IF q \in DOMAIN po THEN po[q] ELSE <<>>
          IN IF q \in items /\ prop_nr \notin Range(old) THEN Append(old, prop_nr) ELSE old]

\* variant of UpdateRevLookup: the index is rebuilt from the rows of the query
UpdateRevLookupRebuilt(rl, rows) ==
    LET indexed == {r \in rows : r.v[1] # "dict"}
    IN [val \in {r.v : r \in indexed} |-> {r.item : r \in {x \in indexed : x.v = val}}]

\* self.rev_lookup[i['v']].add(i['item']) for every row whose value is not a dict
UpdateRevLookup(rl, rows) ==
    LET indexed == {r \in rows : r.v[1] # "dict"}
        newkeys == {r.v : r \in indexed}
    IN [val \in (DOMAIN rl) \cup newkeys |->
          (IF val \in DOMAIN rl THEN rl[val] ELSE {})
          \cup {r.item : r \in {x \in indexed : x.v = val}}]

QueryData(pd, po, rl, prop_nr, refs_wanted, ver) ==
    LET rows == {FormatRow(i) : i \in QueryBindings(prop_nr, refs_wanted, ver)}
    IN [prop_data |-> UpdatePropData(pd, prop_nr, rows),
        prop_order |-> UpdatePropOrder(po, prop_nr, rows),
        rev_lookup |-> UpdateRevLookup(rl, rows)]

---------------------------------------------------------------------------
(* Statement objects (the data type classes live outside this module) *)
Stmt(prop_nr, value, data_type, qualifiers, references) ==
    [prop_nr |-> prop_nr, value |-> value, data_type |-> data_type,
     qualifiers |-> qualifiers, references |-> references]

\* the value a data type class of tag dt holds when constructed from a cached value
MakeValue(dt, raw) ==
    CASE dt = "wikibase-item" /\ raw[1] = "str" /\ Len(raw[2]) = 2 /\ raw[2][1] = "Q"
            -> IntV(ParseInt(<<raw[2][2]>>))
      [] dt = "time" -> TupleV(<<raw, IntV(11)>>)
      [] OTHER -> raw

\* WDBaseDataType.delete_statement(prop_nr)
DeleteStatement(prop_nr) == Stmt(prop_nr, EmptyStr, "", {}, <<>>)

Count(s, x) == Cardinality({i \in 1..Len(s) : s[i] = x})

\* x.equals(y, include_ref=..., fref=None)
Equals(x, y, include_ref) ==
    /\ x.prop_nr = y.prop_nr
    /\ x.value = y.value
    /\ x.qualifiers = y.qualifiers
    /\ include_ref =>
          /\ Len(x.references) = Len(y.references)
          /\ \A g \in Range(x.references) \cup Range(y.references) :
                Count(x.references, g) = Count(y.references, g)

---------------------------------------------------------------------------
(* reconstruct_statements *)
Extend(m, keys, F(_)) == [k \in (DOMAIN m) \cup keys |-> IF k \in DOMAIN m THEN m[k] ELSE F(k)]

SidsOf(pd, qid, prop_nr) == {k \in DOMAIN pd : k[1] = qid /\ k[2] = prop_nr}

\* the statement object built from one cache entry
ReconstructOne(d, prop_nr, dtm) ==
    LET refids == {r[1] : r \in d.ref}
    IN Stmt(prop_nr, MakeValue(dtm[prop_nr], d.v), dtm[prop_nr],
            {<<q[1], MakeValue(dtm[q[1]], q[2])>> : q \in d.qual},
            [n \in 1..Cardinality(refids) |->
                LET rid == SetToSeq(refids)[n]
                IN {<<r[2], MakeValue(dtm[r[2]], r[3])>> : r \in {x \in d.ref : x[1] = rid}}])

RECURSIVE ReconstructLoop(_, _, _, _, _, _)
ReconstructLoop(pd, qid, props, dtm, acc, events) ==
    IF props = <<>>
    THEN [error |-> "", prop_dt_map |-> dtm, statements |-> acc, events |-> events]
    ELSE LET prop_nr == Head(props)
             ks == SidsOf(pd, qid, prop_nr)
             q_props == UNION {{q[1] : q \in pd[k].qual} : k \in ks}
             r_props == UNION {{r[2] : r \in pd[k].ref} : k \in ks}
             missing == SetToSeq((q_props \cup r_props) \ DOMAIN dtm)
             dtm1 == Extend(dtm, q_props \cup r_props, RemoteDatatype)
             ev1 == events \o [n \in 1..Len(missing) |-> <<"dt", missing[n]>>]
             kseq == SetToSeq(ks)
         IN IF prop_nr \notin DOMAIN dtm1
            THEN [error |-> "KeyError", prop_dt_map |-> dtm1, statements |-> <<>>,
                  events |-> ev1]
            ELSE ReconstructLoop(pd, qid, Tail(props), dtm1,
                    acc \o [n \in 1..Len(kseq) |-> ReconstructOne(pd[kseq[n]], prop_nr, dtm1)],
                    ev1)

ReconstructStatements(pd, po, dtm, qid) ==
    IF qid \notin DOMAIN po
    THEN [error |-> "KeyError", prop_dt_map |-> dtm, statements |-> <<>>, events |-> <<>>]
    ELSE ReconstructLoop(pd, qid, po[qid], dtm, <<>>, <<>>)

---------------------------------------------------------------------------
(* write_required *)
IsDeletion(x) == ~Truthy(x.value) \/ x.data_type = ""

\* data_props: the properties of the statements with a value and a data type
DataProps(data) == {data[i].prop_nr : i \in {j \in 1..Len(data) : ~IsDeletion(data[j])}}

\* the first loop skips a statement that has no value and no data type
SkipStatement(date) == ~Truthy(date.value) /\ date.data_type = ""

\* variant of NeedsPopulation: every call resolves and populates anew
NeedsPopulationAlways(prop_nr, dtm) == TRUE

\* the property is resolved and populated only when the datatype map lacks it
NeedsPopulation(prop_nr, dtm) == prop_nr \notin DOMAIN dtm

\* the key a desired statement is looked up under in the reverse index
LookupKey(date, dt) ==
    CASE dt = "time" -> Subscript0(date.value)
      [] dt = "wikibase-item" -> FormatQ(date.value)
      [] OTHER -> date.value

\* variant of ForcesWrite: globe coordinates are compared like any other value
ForcesWriteNever(dt) == FALSE

\* the workaround for globe coordinates
ForcesWrite(dt) == dt = "globe-coordinate"

\* variant of Candidates: a value the index never saw yields an empty candidate set
CandidatesNeverMissing(rl, current_value) ==
    [seen |-> TRUE, temp_set |-> IF current_value \in DOMAIN rl THEN rl[current_value] ELSE {}]

\* the quick check of the reverse index: the candidate set, if the value was seen
Candidates(rl, current_value) ==
    IF current_value \in DOMAIN rl
    THEN [seen |-> TRUE, temp_set |-> rl[current_value]]
    ELSE [seen |-> FALSE, temp_set |-> {}]

\* the first loop over data: deletion markers, lazy datatype resolution and
\* population, value normalisation, reverse index lookup
RECURSIVE LookupLoop(_, _, _, _, _, _)
LookupLoop(data, i, c, refs_wanted, ver, qfail) ==
    IF i > Len(data) THEN c
    ELSE
    LET date == data[i]
        prop_nr == date.prop_nr
    IN IF SkipStatement(date)
       THEN LookupLoop(data, i + 1, [c EXCEPT !.del_props = @ \cup {prop_nr}],
                       refs_wanted, ver, qfail)
       ELSE
       LET miss == NeedsPopulation(prop_nr, c.prop_dt_map)
           dtm == Extend(c.prop_dt_map, {prop_nr}, RemoteDatatype)
           q == IF miss
                THEN QueryData(c.prop_data, c.prop_order, c.rev_lookup, prop_nr, refs_wanted, ver)
                ELSE [prop_data |-> c.prop_data, prop_order |-> c.prop_order,
                      rev_lookup |-> c.rev_lookup]
           ev == c.events \o (IF miss THEN <<<<"dt", prop_nr>>>> ELSE <<>>)
       IN IF miss /\ qfail
          THEN [c EXCEPT !.prop_dt_map = dtm, !.events = ev, !.exit = "QueryError"]
          ELSE
          LET c1 == [c EXCEPT !.prop_dt_map = dtm,
                              !.prop_data = q.prop_data,
                              !.prop_order = q.prop_order,
                              !.rev_lookup = q.rev_lookup,
                              !.write_required = @ \/ ForcesWrite(dtm[prop_nr]),
                              !.events = ev \o (IF miss THEN <<<<"pop", prop_nr>>>> ELSE <<>>)
                                            \o <<<<"lookup", prop_nr>>>>]
              cand == Candidates(c1.rev_lookup, LookupKey(date, dtm[prop_nr]))
          IN IF cand.seen
             THEN LookupLoop(data, i + 1, [c1 EXCEPT !.match_sets = Append(@, cand.temp_set)],
                             refs_wanted, ver, qfail)
             ELSE [c1 EXCEPT !.exit = "True"]

\* match_sets[0].intersection(*match_sets[1:])
Intersection(match_sets) ==
    {q \in match_sets[1] : \A n \in 1..Len(match_sets) : q \in match_sets[n]}

\* matching_qids: the known entity id, or the intersection of the candidate sets
MatchingQids(cqid, match_sets) ==
    IF cqid # NoQid THEN {cqid} ELSE Intersection(match_sets)

\* variant of Resolved: any matching entity will do
ResolvedIfAny(matching_qids) == matching_qids # {}

\* the call goes on to the comparison only with exactly one matching entity
Resolved(matching_qids) == Cardinality(matching_qids) = 1

\* the append-property test: the number of equal (desired, cached) pairs differs
\* from the number of desired statements of property p
AppendMismatch(data, tmp_rs, p, include_ref) ==
    LET app_data == SelectIdx(data, LAMBDA x : x.prop_nr = p)
        rec_app_data == SelectIdx(tmp_rs, LAMBDA x : x.prop_nr = p)
        comp == {<<i, j>> \in app_data \X rec_app_data : Equals(data[i], tmp_rs[j], include_ref)}
    IN Cardinality(comp) # Cardinality(app_data)

\* variant of FilterRs: the properties missing from the desired list stay
FilterRsKeepOmitted(tmp_rs, append_props, data_props) ==
    SelectSeq(tmp_rs, LAMBDA x : x.prop_nr \notin Range(append_props))

\* tmp_rs = [x for x in tmp_rs if x.get_prop_nr() not in append_props and ... in data_props]
FilterRs(tmp_rs, append_props, data_props) ==
    SelectSeq(tmp_rs, LAMBDA x : x.prop_nr \notin Range(append_props) /\ x.prop_nr \in data_props)

\* variant of BoolVec: a cached statement matches on its property alone
BoolVecByProp(tmp_rs, date, del_props, include_ref) ==
    {j \in 1..Len(tmp_rs) :
        tmp_rs[j].prop_nr = date.prop_nr /\ tmp_rs[j].prop_nr \notin del_props}

\* bool_vec, as the set of the indexes that hold True
BoolVec(tmp_rs, date, del_props, include_ref) ==
    {j \in 1..Len(tmp_rs) :
        Equals(tmp_rs[j], date, include_ref) /\ tmp_rs[j].prop_nr \notin del_props}

\* variant of Consume: the matched statement stays in the working copy
ConsumeNothing(tmp_rs, bool_vec) == tmp_rs

\* tmp_rs.pop(bool_vec.index(True))
Consume(tmp_rs, bool_vec) == Remove(tmp_rs, Min(bool_vec))

\* a deletion marker whose property is still in the working copy forces a write
DeletionConflict(date, tmp_rs) ==
    IsDeletion(date) /\ date.prop_nr \in {tmp_rs[j].prop_nr : j \in 1..Len(tmp_rs)}

\* variant of FinalResult: statements left in the working copy are ignored
FinalResultFlagOnly(write_required, tmp_rs) == write_required

\* the value returned at the end: the flag, or statements left in the working copy
FinalResult(write_required, tmp_rs) == write_required \/ Len(tmp_rs) > 0

\* the second loop over data, and the final test of the working copy
RECURSIVE CompareLoop(_, _, _, _, _, _, _)
CompareLoop(data, i, tmp_rs, write_required, del_props, append_props, include_ref) ==
    IF i > Len(data)
    THEN [result |-> FinalResult(write_required, tmp_rs), stage |-> "end"]
    ELSE
    LET date == data[i]
    IN IF DeletionConflict(date, tmp_rs)
       THEN [result |-> TRUE, stage |-> "deletion"]
       ELSE IF IsDeletion(date) \/ date.prop_nr \in Range(append_props)
       THEN CompareLoop(data, i + 1, tmp_rs, write_required, del_props, append_props, include_ref)
       ELSE
       LET bool_vec == BoolVec(tmp_rs, date, del_props, include_ref)
       IN IF bool_vec = {}
          THEN CompareLoop(data, i + 1, tmp_rs, TRUE, del_props, append_props, include_ref)
          ELSE CompareLoop(data, i + 1, Consume(tmp_rs, bool_vec), write_required,
                           del_props, append_props, include_ref)

BoolStr(b) == IF b THEN "True" ELSE "False"

\* variant of Outcome: a call that ends early forgets the resolved entity
OutcomeForgetful(c, cur, result, stage) ==
    [result |-> result, stage |-> stage,
     prop_dt_map |-> c.prop_dt_map, prop_data |-> c.prop_data,
     prop_order |-> c.prop_order, rev_lookup |-> c.rev_lookup,
     current_qid |-> NoQid, match_sets |-> c.match_sets, events |-> c.events]

\* what a call leaves behind when it ends before the reconstruction
Outcome(c, cur, result, stage) ==
    [result |-> result, stage |-> stage,
     prop_dt_map |-> c.prop_dt_map, prop_data |-> c.prop_data,
     prop_order |-> c.prop_order, rev_lookup |-> c.rev_lookup,
     current_qid |-> cur, match_sets |-> c.match_sets, events |-> c.events]

\* what a call leaves behind when it ends after the reconstruction of qid
OutcomeFor(c, qid, rec, result, stage) ==
    [result |-> result, stage |-> stage,
     prop_dt_map |-> rec.prop_dt_map, prop_data |-> c.prop_data,
     prop_order |-> c.prop_order, rev_lookup |-> c.rev_lookup,
     current_qid |-> qid, match_sets |-> c.match_sets, events |-> c.events \o rec.events]

\* the value the second loop and the final test return
Compared(c, qid, rec, cmp) == OutcomeFor(c, qid, rec, BoolStr(cmp.result), cmp.stage)

\* the append properties, the filter and the comparison, on the reconstructed
\* statements of qid
DecideReconstructed(data, append_props, refs_wanted, c, qid, rec) ==
    IF rec.error # ""
    THEN OutcomeFor(c, qid, rec, rec.error, "reconstruct")
    ELSE IF \E n \in 1..Len(append_props) :
               AppendMismatch(data, rec.statements, append_props[n], refs_wanted)
    THEN OutcomeFor(c, qid, rec, "True", "append")
    ELSE Compared(c, qid, rec,
                  CompareLoop(data, 1, FilterRs(rec.statements, append_props, DataProps(data)),
                              c.write_required, c.del_props, append_props, refs_wanted))

\* the test of the matching entities; qid = matching_qids.pop()
DecideMatching(data, append_props, refs_wanted, cur, c, matching_qids) ==
    IF ~Resolved(matching_qids)
    THEN Outcome(c, cur, "True", "matching")
    ELSE DecideReconstructed(data, append_props, refs_wanted, c,
                             CHOOSE q \in matching_qids : TRUE,
                             ReconstructStatements(c.prop_data, c.prop_order, c.prop_dt_map,
                                                   CHOOSE q \in matching_qids : TRUE))

\* write_required after its first loop
DecideAfterLookup(data, append_props, cqid, refs_wanted, cur, c) ==
    IF c.exit # ""
    THEN Outcome(c, cur, c.exit, "rev_lookup")
    ELSE IF cqid = NoQid /\ c.match_sets = <<>>
    THEN Outcome(c, cur, "IndexError", "matching")
    ELSE DecideMatching(data, append_props, refs_wanted, cur, c,
                        MatchingQids(cqid, c.match_sets))

\* The whole of write_required.  result is "True", "False" or the exception the
\* call ends with; stage is the return statement that produced the result.
WriteRequired(data, append_props, cqid, pd, po, rl, dtm, cur, refs_wanted, ver, qfail) ==
    DecideAfterLookup(data, append_props, cqid, refs_wanted, cur,
        LookupLoop(data, 1,
                   [prop_dt_map |-> dtm, prop_data |-> pd, prop_order |-> po, rev_lookup |-> rl,
                    write_required |-> FALSE, match_sets |-> <<>>, del_props |-> {},
                    events |-> <<>>, exit |-> ""],
                   refs_wanted, ver, qfail))

---------------------------------------------------------------------------
(* The language cache *)
Langs == {"en"}
Kinds == {"label", "aliases"}

\* the bindings of the language query: one row per entity and string, and a row
\* without label for an entity that has none
RemoteLang(lang, lang_data_type) ==
    IF lang_data_type = "label"
    THEN {[item |-> Uri(EntityUri(Q1)), label |-> Literal(<<"x">>)],
          [item |-> Uri(EntityUri(Q2)), label |-> Absent]}
    ELSE {[item |-> Uri(EntityUri(Q1)), label |-> Literal(<<"y">>)],
          [item |-> Uri(EntityUri(Q2)), label |-> Absent]}

\* variant of InitLanguageData: the language query is issued at every call
InitLanguageDataAlways(ll, lang, lang_data_type, qfail) ==
    LET ll1 == IF lang \in DOMAIN ll THEN ll ELSE Extend(ll, {lang}, LAMBDA l : <<>>)
    IN [loaded_langs |->
            IF ~qfail
            THEN [ll1 EXCEPT ![lang] = [k \in DOMAIN @ \cup {lang_data_type} |->
                                           IF k = lang_data_type THEN RemoteLang(lang, k)
                                           ELSE @[k]]]
            ELSE ll1,
        queried |-> TRUE,
        error |-> IF qfail THEN "QueryError" ELSE ""]

\* init_language_data; qfail: the language query raises
InitLanguageData(ll, lang, lang_data_type, qfail) ==
    LET ll1 == IF lang \in DOMAIN ll THEN ll ELSE Extend(ll, {lang}, LAMBDA l : <<>>)
        miss == lang_data_type \notin DOMAIN ll1[lang]
    IN [loaded_langs |->
            IF miss /\ ~qfail
            THEN [ll1 EXCEPT ![lang] = Extend(@, {lang_data_type},
                                              LAMBDA k : RemoteLang(lang, k))]
            ELSE ll1,
        queried |-> miss,
        error |-> IF miss /\ qfail THEN "QueryError" ELSE ""]

\* variant of LangStrings: an entity without a string holds no string
LangStringsRaw(bindings, qid, lang_data_type) ==
    SetToSeq({b.label.value : b \in {x \in bindings :
                 LastSeg(x.item.value) = qid /\ Present(x.label)}})

\* the strings get_language_data collects from the stored result
LangStrings(bindings, qid, lang_data_type) ==
    LET found == {b.label.value : b \in {x \in bindings :
                      LastSeg(x.item.value) = qid /\ Present(x.label)}}
    IN IF found = {} /\ lang_data_type \in {"label", "description"}
       THEN <<<<>>>>
       ELSE SetToSeq(found)

GetLanguageData(ll, qid, lang, lang_data_type, qfail) ==
    LET i == InitLanguageData(ll, lang, lang_data_type, qfail)
    IN [loaded_langs |-> i.loaded_langs, queried |-> i.queried, error |-> i.error,
        strings |-> IF i.error # "" THEN <<>>
                    ELSE LangStrings(i.loaded_langs[lang][lang_data_type], qid, lang_data_type)]

CheckLanguageData(ll, qid, lang_data, lang, lang_data_type, qfail) ==
    LET g == GetLanguageData(ll, qid, lang, lang_data_type, qfail)
    IN [loaded_langs |-> g.loaded_langs, queried |-> g.queried, error |-> g.error,
        strings |-> g.strings,
        result |-> IF g.error # "" THEN g.error
                   ELSE BoolStr(\E n \in 1..Len(lang_data) : lang_data[n] \notin Range(g.strings))]

---------------------------------------------------------------------------
(* Inputs *)
QualVal5 == <<P2, IntV(5)>>
RefGroupT2 == {<<P3, TupleV(<<Str(<<"+", "t2">>), IntV(11)>>)>>}

StmtA == Stmt(P1, Str(<<"a">>), "string", {QualVal5}, <<RefGroupT2>>)
StmtA0 == Stmt(P1, Str(<<"a">>), "string", {QualVal5}, <<>>)
StmtAq0 == Stmt(P1, Str(<<"a">>), "string", {}, <<>>)
StmtItem5 == Stmt(P2, IntV(5), "wikibase-item", {}, <<>>)
StmtItem6 == Stmt(P2, IntV(6), "wikibase-item", {}, <<>>)
StmtTime == Stmt(P3, TupleV(<<Str(<<"t1">>), IntV(11)>>), "time", {}, <<>>)
StmtTimeSigned == Stmt(P3, TupleV(<<Str(<<"+", "t1">>), IntV(11)>>), "time", {}, <<>>)
StmtCoord == Stmt(P4, Str(<<"Point(1 2)">>), "globe-coordinate", {}, <<>>)

\* the statements a caller may put into the desired list
Pool == {StmtA, StmtA0, StmtAq0, StmtItem5, StmtItem6, StmtTime, StmtTimeSigned,
         StmtCoord, DeleteStatement(P1)}

\* the statements of the desired lists in the runs that exercise every operation
LifePool == {StmtA0, StmtItem5}

SeqsUpTo(S, n) == UNION {[1..m -> S] : m \in 0..n}

DataInputs == SeqsUpTo(Pool, MaxData)
LifeDataInputs == SeqsUpTo(LifePool, MaxData)
AppendInputs == {<<>>, <<P1>>}
Qids == {Q1, Q2}
CqidInputs == {NoQid} \cup Qids
LangDataInputs == SeqsUpTo({<<"x">>, <<"y">>, <<>>}, MaxLangData)

---------------------------------------------------------------------------
(* The container as a state machine *)
Idle == [op |-> "idle", data |-> <<>>, append_props |-> <<>>, qid |-> NoQid, prop_nr |-> <<>>,
         lang |-> "", kind |-> "", lang_data |-> <<>>, qfail |-> FALSE, after_clear |-> "no",
         result |-> "", stage |-> "", match_sets |-> <<>>, events |-> <<>>, value |-> <<>>]

Bump(counts, keys) ==
    [k \in (DOMAIN counts) \cup keys |->
        LET old == IF k \in DOMAIN counts THEN counts[k] ELSE 0
        IN IF k \in keys /\ old < MaxCount THEN old + 1 ELSE old]

EventProps(events, kind) == {events[n][2] : n \in {m \in 1..Len(events) : events[m][1] = kind}}

Init ==
    /\ prop_data = <<>>
    /\ prop_order = <<>>
    /\ rev_lookup = <<>>
    /\ prop_dt_map = <<>>
    /\ loaded_langs = <<>>
    /\ current_qid = NoQid
    /\ use_refs \in BOOLEAN
    /\ remote = 0
    /\ populated = {}
    /\ dt_lookups = <<>>
    /\ lang_queries = <<>>
    /\ last_cleared = "no"
    /\ ret = Idle

\* write_required(data, append_props, cqid); qfail: the population query raises
WriteRequiredCall(data, append_props, cqid, qfail) ==
    /\ ret.op = "idle"
    /\ \E w \in {WriteRequired(data, append_props, cqid, prop_data, prop_order, rev_lookup,
                              prop_dt_map, current_qid, use_refs, remote, qfail)} :
          /\ prop_data' = w.prop_data
          /\ prop_order' = w.prop_order
          /\ rev_lookup' = w.rev_lookup
          /\ prop_dt_map' = w.prop_dt_map
          /\ current_qid' = w.current_qid
          /\ populated' = populated \cup EventProps(w.events, "pop")
          /\ dt_lookups' = Bump(dt_lookups, EventProps(w.events, "dt"))
          /\ ret' = [Idle EXCEPT !.op = "write_required", !.data = data,
                                 !.append_props = append_props, !.qid = cqid,
                                 !.qfail = qfail, !.after_clear = last_cleared,
                                 !.result = w.result, !.stage = w.stage,
                                 !.match_sets = w.match_sets, !.events = w.events,
                                 !.value = <<>>]
    /\ last_cleared' = "no"
    /\ UNCHANGED <<loaded_langs, use_refs, remote, lang_queries>>

\* reconstruct_statements(qid)
ReconstructStatementsCall(qid) ==
    /\ ret.op = "idle"
    /\ \E r \in {ReconstructStatements(prop_data, prop_order, prop_dt_map, qid)} :
          /\ prop_dt_map' = r.prop_dt_map
          /\ dt_lookups' = Bump(dt_lookups, EventProps(r.events, "dt"))
          /\ ret' = [Idle EXCEPT !.op = "reconstruct_statements", !.qid = qid,
                                 !.after_clear = last_cleared,
                                 !.result = IF r.error = "" THEN "ok" ELSE r.error,
                                 !.events = r.events, !.value = r.statements]
    /\ UNCHANGED <<prop_data, prop_order, rev_lookup, loaded_langs, current_qid, use_refs,
                   remote, populated, lang_queries,
                   last_cleared>>

\* _query_data(prop_nr); qfail: the population query raises
QueryDataCall(prop_nr, qfail) ==
    /\ ret.op = "idle"
    /\ \E q \in {QueryData(prop_data, prop_order, rev_lookup, prop_nr, use_refs, remote)} :
          IF qfail
          THEN UNCHANGED <<prop_data, prop_order, rev_lookup, populated>>
          ELSE /\ prop_data' = q.prop_data
               /\ prop_order' = q.prop_order
               /\ rev_lookup' = q.rev_lookup
               /\ populated' = populated \cup {prop_nr}
    /\ ret' = [Idle EXCEPT !.op = "_query_data", !.prop_nr = prop_nr, !.qfail = qfail,
                           !.after_clear = last_cleared,
                           !.result = IF qfail THEN "QueryError" ELSE "ok",
                           !.events = IF qfail THEN <<>> ELSE <<<<"pop", prop_nr>>>>]
    /\ last_cleared' = "no"
    /\ UNCHANGED <<prop_dt_map, loaded_langs, current_qid, use_refs, remote, dt_lookups,
                   lang_queries>>

\* get_language_data(qid, lang, lang_data_type)
GetLanguageDataCall(qid, lang, lang_data_type, qfail) ==
    /\ ret.op = "idle"
    /\ \E g \in {GetLanguageData(loaded_langs, qid, lang, lang_data_type, qfail)} :
          /\ loaded_langs' = g.loaded_langs
          /\ lang_queries' = Bump(lang_queries, IF g.queried THEN {<<lang, lang_data_type>>} ELSE {})
          /\ ret' = [Idle EXCEPT !.op = "get_language_data", !.qid = qid, !.lang = lang,
                                 !.kind = lang_data_type, !.qfail = qfail,
                                 !.after_clear = last_cleared,
                                 !.result = IF g.error = "" THEN "ok" ELSE g.error,
                                 !.stage = IF g.queried THEN "queried" ELSE "cached",
                                 !.value = g.strings]
    /\ UNCHANGED <<prop_data, prop_order, rev_lookup, prop_dt_map, current_qid, use_refs,
                   remote, populated, dt_lookups,
                   last_cleared>>

\* check_language_data(qid, lang_data, lang, lang_data_type)
CheckLanguageDataCall(qid, lang_data, lang, lang_data_type, qfail) ==
    /\ ret.op = "idle"
    /\ \E g \in {CheckLanguageData(loaded_langs, qid, lang_data, lang, lang_data_type, qfail)} :
          /\ loaded_langs' = g.loaded_langs
          /\ lang_queries' = Bump(lang_queries, IF g.queried THEN {<<lang, lang_data_type>>} ELSE {})
          /\ ret' = [Idle EXCEPT !.op = "check_language_data", !.qid = qid, !.lang = lang,
                                 !.kind = lang_data_type, !.lang_data = lang_data,
                                 !.qfail = qfail, !.after_clear = last_cleared,
                                 !.result = g.result,
                                 !.stage = IF g.queried THEN "queried" ELSE "cached",
                                 !.value = g.strings]
    /\ UNCHANGED <<prop_data, prop_order, rev_lookup, prop_dt_map, current_qid, use_refs,
                   remote, populated, dt_lookups,
                   last_cleared>>

\* variant of ClearedDtMap: clear() keeps the datatype map
DtMapKept(dtm) == dtm

\* the assignments of clear()
ClearedDtMap(dtm) == <<>>
ClearedPropData(pd) == <<>>
ClearedRevLookup(rl) == <<>>
ClearedLangs(ll) == ll

\* clear()
Clear ==
    /\ ret.op = "idle"
    /\ prop_dt_map' = ClearedDtMap(prop_dt_map)
    /\ prop_data' = ClearedPropData(prop_data)
    /\ prop_order' = <<>>
    /\ rev_lookup' = ClearedRevLookup(rev_lookup)
    /\ loaded_langs' = ClearedLangs(loaded_langs)
    /\ populated' = {}
    /\ dt_lookups' = <<>>
    /\ last_cleared' = (IF DOMAIN prop_data = {} /\ DOMAIN rev_lookup = {} THEN "empty" ELSE "dropped")
    /\ ret' = [Idle EXCEPT !.op = "clear", !.after_clear = last_cleared, !.result = "ok"]
    /\ UNCHANGED <<current_qid, use_refs, remote, lang_queries>>

\* the remote store diverges from what has been cached
RemoteChange ==
    /\ ret.op = "idle"
    /\ remote = 0
    /\ remote' = 1
    /\ UNCHANGED <<prop_data, prop_order, rev_lookup, prop_dt_map, loaded_langs, current_qid,
                   use_refs, populated, dt_lookups, lang_queries, last_cleared, ret>>

\* the caller takes the outcome of the operation and goes on
Return ==
    /\ ret.op # "idle"
    /\ ret' = Idle
    /\ UNCHANGED <<prop_data, prop_order, rev_lookup, prop_dt_map, loaded_langs, current_qid,
                   use_refs, remote, populated, dt_lookups, lang_queries, last_cleared>>

\* The caller is single-threaded: it issues an operation only when it is not
\* returning from one.
Ready == ret.op = "idle"

\* the properties _query_data is called for directly
QueryProps == {P1, P4}

\* every operation of the container, with short desired lists
Next ==
    \/ /\ Ready
       /\ \E data \in LifeDataInputs, cqid \in CqidInputs, qfail \in BOOLEAN :
             WriteRequiredCall(data, <<>>, cqid, qfail)
    \/ /\ Ready
       /\ \E qid \in Qids : ReconstructStatementsCall(qid)
    \/ /\ Ready
       /\ \E prop_nr \in QueryProps, qfail \in BOOLEAN : QueryDataCall(prop_nr, qfail)
    \/ /\ Ready
       /\ \E qid \in Qids, lang \in Langs, kind \in Kinds :
             GetLanguageDataCall(qid, lang, kind, FALSE)
    \/ /\ Ready
       /\ \E qid \in Qids, lang_data \in LangDataInputs, lang \in Langs, kind \in Kinds :
             CheckLanguageDataCall(qid, lang_data, lang, kind, FALSE)
    \/ Clear
    \/ RemoteChange
    \/ Return

Spec == Init /\ [][Next]_vars

\* the decision procedure alone, on every desired list over Pool
NextDecide ==
    \/ /\ Ready
       /\ \E data \in DataInputs, append_props \in AppendInputs, cqid \in CqidInputs :
             WriteRequiredCall(data, append_props, cqid, FALSE)
    \/ Return

SpecDecide == Init /\ [][NextDecide]_vars

\* the language cache alone, with language queries that may raise
NextLang ==
    \/ /\ Ready
       /\ \E qid \in Qids, lang \in Langs, kind \in Kinds, qfail \in BOOLEAN :
             GetLanguageDataCall(qid, lang, kind, qfail)
    \/ /\ Ready
       /\ \E qid \in Qids, lang_data \in LangDataInputs, lang \in Langs, kind \in Kinds,
             qfail \in BOOLEAN : CheckLanguageDataCall(qid, lang_data, lang, kind, qfail)
    \/ Clear
    \/ Return

SpecLang == Init /\ [][NextLang]_vars

---------------------------------------------------------------------------
(* Properties of write_required *)

\* the last operation was write_required and its outcome has not been consumed
Called == ret.op = "write_required"

Assertive(date) == Truthy(date.value) /\ date.data_type # ""

AssertiveIdx(data) == {i \in 1..Len(data) : Assertive(data[i])}

\* the statement's property is resolved, and the reverse index of the state
\* does not hold the statement's normalised value
Unseen(date) ==
    /\ date.prop_nr \in DOMAIN prop_dt_map
    /\ LookupKey(date, prop_dt_map[date.prop_nr]) \notin DOMAIN rev_lookup

\* C1: a write_required call whose desired list holds an assertive statement
\* whose normalised value is not a key of rev_lookup after the population of
\* its property returns True, with and without a known entity id.
NeverSeenValueForcesWrite ==
    (Called /\ \E i \in AssertiveIdx(ret.data) : Unseen(ret.data[i]))
        => ret.result = "True"

\* a call with a known entity id was answered True at the reverse index lookup
NeverSeenValueWithCqid ==
    /\ Called
    /\ ret.qid # NoQid
    /\ \E i \in AssertiveIdx(ret.data) : Unseen(ret.data[i])
    /\ ret.stage = "rev_lookup"
    /\ ret.result = "True"

\* a and b hold the same statements, each as often, in any order
SameStatements(a, b) ==
    /\ Len(a) = Len(b)
    /\ \E f \in Permutations(1..Len(a)) : \A i \in 1..Len(a) : a[i] = b[f[i]]

PropsOf(data) == {data[i].prop_nr : i \in 1..Len(data)}

\* the statements reconstruct_statements(qid) returns for the properties props
CachedFor(qid, props) ==
    LET rec == ReconstructStatements(prop_data, prop_order, prop_dt_map, qid)
    IN IF rec.error # "" THEN <<>>
       ELSE SelectSeq(rec.statements, LAMBDA x : x.prop_nr \in props)

\* the properties the cache holds statements of for qid
CachedProps(qid) == PropsOf(CachedFor(qid, Props))

\* the call changed nothing in prop_data and rev_lookup: what the state caches
\* is what the call found cached
NothingPopulated == EventProps(ret.events, "pop") = {}

\* the desired list of the call is the cached statements of qid for some of
\* its cached properties, unchanged
ExactFor(qid, data) ==
    /\ data # <<>>
    /\ SameStatements(data, CachedFor(qid, PropsOf(data)))

\* the entity the call decided against is qid
DecidedAgainst(qid) ==
    \/ ret.qid = qid
    \/ ret.qid = NoQid /\ ret.match_sets # <<>> /\ Intersection(ret.match_sets) = {qid}

\* every assertive desired statement passed the lookup in the reverse index
AllSeen(data) == \A i \in AssertiveIdx(data) : ~Unseen(data[i])

HasCoordinate(data) ==
    \E i \in AssertiveIdx(data) :
        /\ data[i].prop_nr \in DOMAIN prop_dt_map
        /\ prop_dt_map[data[i].prop_nr] = "globe-coordinate"

\* C2 as stated: the cached statements of an entity for some of its cached
\* properties, fed back unchanged with no append-only property, make
\* write_required return False.
ExactMatchIdempotence ==
    \A qid \in Qids :
        (/\ Called
         /\ NothingPopulated
         /\ ret.append_props = <<>>
         /\ ret.qid \in {NoQid, qid}
         /\ ExactFor(qid, ret.data))
            => ret.result = "False"

\* C2, amended: the same, when the call gets to compare against that entity:
\* every desired value is a key of rev_lookup, the entity is the known entity
\* id or the only candidate, and no desired statement is a globe coordinate.
ExactMatchIdempotenceResolved ==
    \A qid \in Qids :
        (/\ Called
         /\ NothingPopulated
         /\ ret.append_props = <<>>
         /\ AllSeen(ret.data)
         /\ DecidedAgainst(qid)
         /\ ~HasCoordinate(ret.data)
         /\ ExactFor(qid, ret.data))
            => ret.result = "False"

\* two cached statements of the only candidate entity were fed back and the
\* call returned False
ExactMatchOfTwoResolved ==
    /\ Called
    /\ NothingPopulated
    /\ ret.append_props = <<>>
    /\ ret.qid = NoQid
    /\ Len(ret.data) = 2
    /\ \E qid \in Qids : DecidedAgainst(qid) /\ ExactFor(qid, ret.data)
    /\ ~HasCoordinate(ret.data)
    /\ ret.result = "False"

\* new is orig with another principal value, qualifier set or, when references
\* are compared, reference set
Changed(orig, new) ==
    /\ orig.prop_nr = new.prop_nr
    /\ orig.data_type = new.data_type
    /\ Assertive(new)
    /\ \/ orig.value # new.value
       \/ orig.qualifiers # new.qualifiers
       \/ use_refs /\ orig.references # new.references
    /\ ~use_refs => orig.references = new.references

\* data is the cached statements of qid for some of its cached properties,
\* with exactly one statement changed
OneChangedFor(qid, data) ==
    LET cached == CachedFor(qid, PropsOf(data))
    IN \E k \in 1..Len(data), j \in 1..Len(cached) :
          /\ Changed(cached[j], data[k])
          /\ SameStatements([data EXCEPT ![k] = cached[j]], cached)

\* the call went on to the comparison against an entity other than qid
DecidedAgainstOther(qid) ==
    /\ ret.stage \notin {"rev_lookup", "matching"}
    /\ current_qid # qid

StrictSubsetFor(qid, data) ==
    /\ ExactFor(qid, data)
    /\ PropsOf(data) # CachedProps(qid)

NotYetPresent(qid, data, p) ==
    LET cached == CachedFor(qid, {p})
    IN {i \in 1..Len(data) :
          /\ data[i].prop_nr = p
          /\ ~\E j \in 1..Len(cached) : Equals(data[i], cached[j], use_refs)}

\* C5: write_required returns True on account of an append-only property only
\* if some desired statement of that property is not yet among the cached
\* statements of the resolved entity; the cached statements, also several
\* equal ones, do not by themselves make the result True.
AppendOnlyNeverRegresses ==
    (Called /\ ret.stage = "append")
        => \E n \in 1..Len(ret.append_props) :
              NotYetPresent(current_qid, ret.data, ret.append_props[n]) # {}

\* the call reached the test of lines 146-149 (it did not end at the reverse
\* index) with at least one candidate set
ReachedMatching ==
    /\ Called
    /\ ret.stage # "rev_lookup"
    /\ ret.match_sets # <<>>

DesiresCoordinate(data) ==
    \E i \in AssertiveIdx(data) : RemoteDatatype(data[i].prop_nr) = "globe-coordinate"

\* C7: a write_required call whose desired list holds an assertive statement
\* of a globe-coordinate property returns True whenever it returns a value.
CoordinateAlwaysConservative ==
    (Called /\ DesiresCoordinate(ret.data) /\ ret.result \in {"True", "False"})
        => ret.result = "True"

\* the desired coordinate statement is cached unchanged for the resolved
\* entity, the comparison ran to its end, and the call returned True
IdenticalCoordinateStillTrue ==
    /\ Called
    /\ NothingPopulated
    /\ DesiresCoordinate(ret.data)
    /\ ret.append_props = <<>>
    /\ ExactFor(current_qid, ret.data)
    /\ ret.stage = "end"
    /\ ret.result = "True"

---------------------------------------------------------------------------
(* Properties of clear and of the population *)

\* write_required on a container that caches nothing
FreshWriteRequired ==
    WriteRequired(ret.data, ret.append_props, ret.qid, <<>>, <<>>, <<>>, <<>>,
                  current_qid, use_refs, remote, ret.qfail)

\* this call is the first to resolve or populate a property since a clear()
FirstCallAfterClear == Called /\ ret.after_clear # "no"

\* C8: right after clear() prop_data and rev_lookup hold no entry, and in the
\* next write_required call every assertive statement the call processes has
\* its property's datatype looked up and its property populated anew, so that
\* the call ends as it does on a container that never cached anything.
ClearResetsFully ==
    /\ ret.op = "clear" => (DOMAIN prop_data = {} /\ DOMAIN rev_lookup = {})
    /\ FirstCallAfterClear =>
          /\ AssertiveIdx(ret.data) # {} => EventProps(ret.events, "dt") # {}
          /\ EventProps(ret.events, "lookup") \subseteq EventProps(ret.events, "dt")
          /\ EventProps(ret.events, "lookup") \subseteq EventProps(ret.events, "pop")
          /\ ret.result = FreshWriteRequired.result
          /\ prop_data = FreshWriteRequired.prop_data
          /\ rev_lookup = FreshWriteRequired.rev_lookup

\* a clear() dropped cached entries and the next call populated anew and
\* found no write required
RepopulatedAfterClear ==
    /\ FirstCallAfterClear
    /\ ret.after_clear = "dropped"
    /\ EventProps(ret.events, "pop") # {}
    /\ ret.result = "False"

\* C9: after clear() the four caches prop_data, rev_lookup, prop_dt_map and
\* loaded_langs are all empty.
ClearResetsAllFourCaches ==
    ret.op = "clear" =>
        /\ DOMAIN prop_data = {}
        /\ DOMAIN rev_lookup = {}
        /\ DOMAIN prop_dt_map = {}
        /\ DOMAIN loaded_langs = {}

\* C10: every property whose statement write_required looks up in the reverse
\* index has been populated since construction or the last clear(), however
\* its datatype came to be resolved.
PopulationPrecedesLookup ==
    Called => EventProps(ret.events, "lookup") \subseteq populated

---------------------------------------------------------------------------
(* Properties of reconstruct_statements and of the growth of the caches *)

\* the step is a call of operation op
CallOf(op) == ret.op = "idle" /\ ret'.op = op

\* C11: a reconstruct_statements call for a cached entity leaves prop_data,
\* rev_lookup, prop_dt_map and loaded_langs exactly as they were.
ReconstructIsPureRead ==
    [][(CallOf("reconstruct_statements") /\ ret'.qid \in DOMAIN prop_order)
          => UNCHANGED <<prop_data, rev_lookup, prop_dt_map, loaded_langs>>]_vars

\* every tag of the datatype map is in the map after the step, unchanged
TagsKept ==
    \A p \in DOMAIN prop_dt_map :
        p \in DOMAIN prop_dt_map' /\ prop_dt_map'[p] = prop_dt_map[p]

HoldsValue(qid, val) == \E k \in DOMAIN prop_data : k[1] = qid /\ prop_data[k].v = val

\* C13: an entity id is in rev_lookup[V] only if some statement cached for
\* that entity has the principal value V, also after a property was populated
\* again from a remote store that changed.
RevLookupOnlyCachedValues ==
    \A val \in DOMAIN rev_lookup : \A qid \in rev_lookup[val] : HoldsValue(qid, val)

\* after the step every cache includes what it held before the step
CachesGrow ==
    /\ DOMAIN prop_dt_map \subseteq DOMAIN prop_dt_map'
    /\ \A val \in DOMAIN rev_lookup :
          val \in DOMAIN rev_lookup' /\ rev_lookup[val] \subseteq rev_lookup'[val]
    /\ \A k \in DOMAIN prop_data :
          /\ k \in DOMAIN prop_data'
          /\ prop_data[k].qual \subseteq prop_data'[k].qual
          /\ prop_data[k].ref \subseteq prop_data'[k].ref
    /\ \A lang \in DOMAIN loaded_langs :
          /\ lang \in DOMAIN loaded_langs'
          /\ DOMAIN loaded_langs[lang] \subseteq DOMAIN loaded_langs'[lang]

\* C14: every operation other than clear() only adds to the datatype map, to
\* the pairs of the reverse index, to the keys and the qualifier and reference
\* pairs of the statement cache, and to the buckets of the language cache.
MonotonicGrowth == [][ret'.op # "clear" => CachesGrow]_vars

\* a property was populated again after the remote store changed and the
\* index holds the old and the new value
OldIndexEntryKept ==
    /\ ret.op = "_query_data"
    /\ remote = 1
    /\ {FormatV(st.v) : st \in {x \in RemoteStore(0) \cup RemoteStore(1) : x.prop = P4}}
          \subseteq DOMAIN rev_lookup

---------------------------------------------------------------------------
(* Properties of the language cache *)

\* the strings the remote store holds for the entity, language and kind
RemoteStrings(qid, lang, kind) ==
    {b.label.value : b \in {x \in RemoteLang(lang, kind) :
        x.item.value = EntityUri(qid) /\ x.label.type # "absent"}}

\* the strings the entity is treated as holding: the empty string for a
\* missing label or description, nothing for a missing alias
HeldStrings(qid, lang, kind) ==
    IF RemoteStrings(qid, lang, kind) = {} /\ kind \in {"label", "description"}
    THEN {<<>>}
    ELSE RemoteStrings(qid, lang, kind)

\* check_language_data returned a value
Checked == ret.op = "check_language_data" /\ ret.result \in {"True", "False"}

\* C15: check_language_data returns True exactly when some string of lang_data
\* is not among the strings get_language_data returns, which are the strings
\* of the entity, or the empty string for an entity without label.
CheckLanguageDataExact ==
    Checked =>
        /\ Range(ret.value) = HeldStrings(ret.qid, ret.lang, ret.kind)
        /\ ret.result = "True" <=>
              \E n \in 1..Len(ret.lang_data) : ret.lang_data[n] \notin Range(ret.value)

\* the empty string was checked against an entity without label: no write
EmptyLabelMatches ==
    /\ Checked
    /\ ret.kind = "label"
    /\ RemoteStrings(ret.qid, ret.lang, ret.kind) = {}
    /\ ret.lang_data = <<<<>>>>
    /\ ret.result = "False"

---------------------------------------------------------------------------
(* Soundness of the decision *)

\* the desired assertive statements of the properties that are not append-only
Compared0(data, append_props) ==
    SelectSeq(data, LAMBDA x : Assertive(x) /\ x.prop_nr \notin Range(append_props))

\* a and b can be paired off one to one into structurally equal pairs
PairedOff(a, b) ==
    /\ Len(a) = Len(b)
    /\ \E f \in Permutations(1..Len(a)) :
          \A i \in 1..Len(a) : Equals(b[f[i]], a[i], use_refs)

\* C16: whenever write_required returns False, the desired assertive
\* statements of the properties that are not append-only and the cached
\* statements of the resolved entity for those properties can be paired off
\* one to one into structurally equal pairs, no cached statement being left.
NegativeAnswerIsSound ==
    (Called /\ ret.result = "False")
        => PairedOff(Compared0(ret.data, ret.append_props),
                     CachedFor(current_qid, PropsOf(Compared0(ret.data, ret.append_props))))

\* two desired statements were paired off with the two cached statements
TwoPairedOff ==
    /\ Called
    /\ ret.result = "False"
    /\ Len(Compared0(ret.data, ret.append_props)) = 2
    /\ Cardinality(PropsOf(ret.data)) = 1

\* the call resolved an entity and reconstructed its statements
ResolvedEntity == Called /\ ret.stage \in {"append", "deletion", "end"}

\* C17: if some desired assertive statement of an append-only property has no
\* structurally equal statement among the cached statements of the resolved
\* entity, write_required returns True.
AppendOnlyIsSound ==
    (/\ ResolvedEntity
     /\ \E n \in 1..Len(ret.append_props) :
           NotYetPresent(current_qid, ret.data, ret.append_props[n])
              \cap AssertiveIdx(ret.data) # {})
        => ret.result = "True"

\* the deletion markers of the desired list: no value and no data type
MarkerIdx(data) == {i \in 1..Len(data) : SkipStatement(data[i])}

\* C18: if the desired list holds a deletion marker of a property of which the
\* resolved entity has a cached statement, write_required returns True.
DeletionMarkerForcesWrite ==
    (/\ ResolvedEntity
     /\ \E i \in MarkerIdx(ret.data) :
           CachedFor(current_qid, {ret.data[i].prop_nr}) # <<>>)
        => ret.result = "True"

\* what the comparison of the desired statements of the call with the cached
\* statements of qid gives: lines 158-214 on reconstruct_statements(qid)
ComparedWith(qid) ==
    LET rec == CachedFor(qid, Props)
    IN IF \E n \in 1..Len(ret.append_props) :
             AppendMismatch(ret.data, rec, ret.append_props[n], use_refs)
       THEN TRUE
       ELSE CompareLoop(ret.data, 1, FilterRs(rec, ret.append_props, DataProps(ret.data)),
                        DesiresCoordinate(ret.data),
                        {ret.data[i].prop_nr : i \in MarkerIdx(ret.data)},
                        ret.append_props, use_refs).result

\* the call had a known entity id and every assertive value passed the lookup
\* in the reverse index
KnownEntityCall == Called /\ ret.qid # NoQid /\ ret.stage # "rev_lookup"

\* C19: a write_required call with a known entity id whose assertive values
\* are all keys of rev_lookup records the id as current_qid and returns what
\* the comparison of the desired statements with the cached statements of that
\* entity gives, whatever the candidate sets hold.
KnownEntityBypassesIntersection ==
    KnownEntityCall => /\ current_qid = ret.qid
                       /\ ret.result = BoolStr(ComparedWith(ret.qid))

\* the same, for a known entity id that has an entry in prop_data
KnownCachedEntityBypassesIntersection ==
    (KnownEntityCall /\ ret.qid \in DOMAIN prop_order)
        => /\ current_qid = ret.qid
           /\ ret.result = BoolStr(ComparedWith(ret.qid))

\* a known entity id without an entry in prop_data, with a desired value that
\* another entity holds
UncachedKnownEntity ==
    /\ KnownEntityCall
    /\ ret.data # <<>>
    /\ AssertiveIdx(ret.data) # {}
    /\ ret.qid \notin DOMAIN prop_order

\* C20: every write_required call whose population queries succeed returns a
\* boolean, whatever the desired list and the known entity id are: an empty
\* list of candidate sets and a known entity id without an entry in prop_data
\* give True, not an exception.
NoCandidateIsNeverAnError ==
    (Called /\ ~ret.qfail) => ret.result \in {"True", "False"}

\* C21: a write_required call that ends with the error of its population
\* query leaves the container as it was before the call: the datatype map does
\* not record the property, so that a later call populates it again.
FailedPopulationIsRetryable ==
    [][(CallOf("write_required") /\ ret'.result = "QueryError")
          => UNCHANGED <<prop_data, prop_order, rev_lookup, prop_dt_map, current_qid>>]_vars

\* what write_required returns for the same arguments on a container that has
\* just been constructed, against the same remote store
FreshDecision(data, append_props, cqid) ==
    WriteRequired(data, append_props, cqid, <<>>, <<>>, <<>>, <<>>, NoQid,
                  use_refs, remote, FALSE).result

\* C22: a write_required call none of whose desired properties has been
\* populated by an earlier call (the earlier calls were about other
\* properties) returns the boolean it returns on a fresh container, when both
\* calls return one, whatever the earlier calls were.
HistoryIndependentDecision ==
    [][(/\ CallOf("write_required")
        /\ ~ret'.qfail
        /\ DataProps(ret'.data) \cap populated = {}
        /\ ret'.result \in {"True", "False"}
        /\ FreshDecision(ret'.data, ret'.append_props, ret'.qid) \in {"True", "False"})
          => ret'.result = FreshDecision(ret'.data, ret'.append_props, ret'.qid)]_vars

\* the call went past line 152: it resolved an entity
ReachedReconstruction == ret.stage \in {"reconstruct", "append", "deletion", "end"}

\* the entity a call resolves: cqid if supplied, else the one member of the
\* intersection of the candidate sets
ResolvedQid(cqid, match_sets) ==
    IF cqid # NoQid THEN cqid ELSE CHOOSE q \in Intersection(match_sets) : TRUE

\* C23: a write_required call that reaches the reconstruction sets current_qid
\* to the entity it resolved (cqid if supplied, else the one member of the
\* candidate intersection); every other step, clear() and the calls that end
\* before resolving an entity included, leaves current_qid unchanged; after a
\* call that returned False current_qid is the entity that was compared.
CurrentQidIsResolvedEntity ==
    /\ []((Called /\ ret.result = "False") => DecidedAgainst(current_qid))
    /\ [][IF ret'.op = "write_required" /\ ReachedReconstruction'
          THEN current_qid' = ResolvedQid(ret'.qid, ret'.match_sets)
          ELSE current_qid' = current_qid]_vars

\* a call that ended before resolving an entity, on a container whose
\* current_qid is the entity an earlier call resolved
UnresolvedCallKeepsQid ==
    /\ Called
    /\ ret.stage \in {"rev_lookup", "matching"}
    /\ ret.result = "True"
    /\ current_qid \in Qids

\* the last operation was get_language_data or check_language_data
LangCall == ret.op \in {"get_language_data", "check_language_data"}

\* loaded_langs holds the result of the language query of (lang, kind)
Stored(lang, kind) == lang \in DOMAIN loaded_langs /\ kind \in DOMAIN loaded_langs[lang]

RemoteTimes == {st \in RemoteStore(remote) : st.v.datatype = "dateTime"}

\* the time statement a caller desires for the remote time value v: the time
\* string carries its sign
DesiredTime(prop_nr, v) ==
    Stmt(prop_nr,
         MakeValue("time", Str(IF StartsWithPlus(v) THEN v ELSE <<"+">> \o v)),
         "time", {}, <<>>)

\* C25: once a time property is populated, the key write_required derives from
\* the desired time statement of a remote time value (the first element of
\* its value) is the key under which population indexed the entity of that
\* remote value.
TimeNormalizedOnBothSides ==
    \A st \in RemoteTimes :
        st.prop \in populated
            => /\ LookupKey(DesiredTime(st.prop, st.v.value), "time") \in DOMAIN rev_lookup
               /\ LastSeg(st.item.value)
                     \in rev_lookup[LookupKey(DesiredTime(st.prop, st.v.value), "time")]
====
